---- MODULE Spec2Model ----
(***************************************************************************)
(* Model of cluster-autoscaler/cloudprovider/hetzner/hetzner_manager.go:   *)
(* construction of the hetznerManager from the environment, and the        *)
(* manager's operations (Refresh, allServers, serverForNode, deleteByNode, *)
(* deleteServer, addNodeToDrainingPool) called from several goroutines     *)
(* against the hcloud API.                                                 *)
(*                                                                         *)
(* Go strings are sequences of one-character strings, so that              *)
(* strings.Split, strings.TrimPrefix and base64 decoding are computed.     *)
(* Every nullable Go value (pointer, error) is a record; nil is Nil.       *)
(***************************************************************************)
EXTENDS Integers, Sequences, FiniteSets, TLC

VARIABLES env, phase, mgr, newErr, remote, g, added

vars == <<env, phase, mgr, newErr, remote, g, added>>

\* ---------------------------------------------------------------- bounds

\* addNodeToDrainingPool is started at most MaxDrain times in one behaviour.
MaxDrain == 3

\* The goroutines of the autoscaler host that call into the manager.
Goroutines == {"g1", "g2"}

\* ---------------------------------------------------------------- values

Nil == [kind |-> "nil"]

Err(msg, cause) == [kind |-> "error", msg |-> msg, cause |-> cause]

\* Constants of the package declared outside hetzner_manager.go.
drainingNodePoolId == "draining-node-pool"
nodeGroupLabel == "hcloud/node-group"
providerIDPrefix == <<"h", "c", "l", "o", "u", "d", ":", "/", "/">>

\* ---------------------------------------------------------------- strings

\* strings.TrimPrefix(s, prefix)
HasPrefix(s, prefix) ==
    /\ Len(s) >= Len(prefix)
    /\ SubSeq(s, 1, Len(prefix)) = prefix

TrimPrefix(s, prefix) ==
    IF HasPrefix(s, prefix) THEN SubSeq(s, Len(prefix) + 1, Len(s)) ELSE s

\* strings.Split(s, sep) for a one-character sep: Count(s, sep) + 1 pieces.
RECURSIVE SplitFrom(_, _, _, _)
SplitFrom(s, sep, i, cur) ==
    IF i > Len(s) THEN <<cur>>
    ELSE IF s[i] = sep THEN <<cur>> \o SplitFrom(s, sep, i + 1, <<>>)
    ELSE SplitFrom(s, sep, i + 1, Append(cur, s[i]))

Split(s, sep) == SplitFrom(s, sep, 1, <<>>)

\* ---------------------------------------------------------------- base64

B64Alphabet ==
    << "A","B","C","D","E","F","G","H","I","J","K","L","M","N","O","P",
       "Q","R","S","T","U","V","W","X","Y","Z","a","b","c","d","e","f",
       "g","h","i","j","k","l","m","n","o","p","q","r","s","t","u","v",
       "w","x","y","z","0","1","2","3","4","5","6","7","8","9","+","/" >>

IsB64(c) == \E i \in 1..Len(B64Alphabet) : B64Alphabet[i] = c

B64Val(c) == (CHOOSE i \in 1..Len(B64Alphabet) : B64Alphabet[i] = c) - 1

\* encoding/base64 skips '\r' and '\n' wherever they stand.
RECURSIVE StripNewlines(_)
StripNewlines(s) ==
    IF s = <<>> THEN <<>>
    ELSE IF Head(s) \in {"\n", "\r"} THEN StripNewlines(Tail(s))
    ELSE <<Head(s)>> \o StripNewlines(Tail(s))

\* One quantum of four characters: the 24-bit value and the bytes it holds.
QuantumBytes(a, b, c, d, n) ==
    LET v == B64Val(a) * 262144 + B64Val(b) * 4096 + B64Val(c) * 64 + B64Val(d)
        bytes == << v \div 65536, (v \div 256) % 256, v % 256 >>
    IN  SubSeq(bytes, 1, n)

\* base64.StdEncoding.DecodeString on newline-free input: padded quanta,
\* padding only in the last quantum, nothing after it.
RECURSIVE DecodeQuanta(_)
DecodeQuanta(s) ==
    IF s = <<>> THEN [ok |-> TRUE, bytes |-> <<>>]
    ELSE IF Len(s) < 4 THEN [ok |-> FALSE, bytes |-> <<>>]
    ELSE LET rest == SubSeq(s, 5, Len(s)) IN
         IF \A i \in 1..4 : IsB64(s[i])
         THEN LET r == DecodeQuanta(rest) IN
              IF r.ok
              THEN [ok |-> TRUE,
                    bytes |-> QuantumBytes(s[1], s[2], s[3], s[4], 3) \o r.bytes]
              ELSE r
         ELSE IF /\ IsB64(s[1]) /\ IsB64(s[2]) /\ IsB64(s[3])
                 /\ s[4] = "=" /\ rest = <<>>
         THEN [ok |-> TRUE, bytes |-> QuantumBytes(s[1], s[2], s[3], "A", 2)]
         ELSE IF /\ IsB64(s[1]) /\ IsB64(s[2])
                 /\ s[3] = "=" /\ s[4] = "=" /\ rest = <<>>
         THEN [ok |-> TRUE, bytes |-> QuantumBytes(s[1], s[2], "A", "A", 1)]
         ELSE [ok |-> FALSE, bytes |-> <<>>]

DecodeString(s) == DecodeQuanta(StripNewlines(s))

\* ---------------------------------------------------------------- template

\* The keys of nameTemplateFuncMap.
nameTemplateFuncMap ==
    { "compare", "contains", "containsAny", "containsRune", "count",
      "equalFold", "fields", "hasPrefix", "hasSuffix", "indexAny",
      "indexByte", "indexRune", "join", "lastIndex", "lastIndexAny",
      "lastIndexByte", "repeat", "replace", "replaceAll", "split",
      "splitAfter", "splitAfterN", "splitN", "toLower", "toTitle",
      "toUpper", "toValidUTF8", "trim", "trimLeft", "trimPrefix",
      "trimRight", "trimSpace", "trimSuffix" }

\* The functions text/template predefines for every template.
TemplateBuiltins ==
    { "and", "call", "html", "index", "slice", "js", "len", "not", "or",
      "print", "printf", "println", "urlquery",
      "eq", "ge", "gt", "le", "lt", "ne" }

IsField(tok) == tok \in {".GroupId", ".Seq"}

\* template.New(...).Funcs(nameTemplateFuncMap).Parse(src) on a source given
\* as its tokens: "{{" and "}}" delimit an action, inside which every word is
\* a field or a function that must be defined.  inAction and n are the
\* parser's position: inside an action, and how many words it holds so far.
RECURSIVE ParseFrom(_, _, _, _)
ParseFrom(src, i, inAction, n) ==
    IF i > Len(src) THEN ~inAction
    ELSE LET tok == src[i] IN
         IF ~inAction
         THEN ParseFrom(src, i + 1, tok = "{{", 0)
         ELSE IF tok = "}}" THEN n > 0 /\ ParseFrom(src, i + 1, FALSE, 0)
         ELSE IF tok = "{{" THEN FALSE
         ELSE /\ IsField(tok) \/ tok \in nameTemplateFuncMap \union TemplateBuiltins
              /\ ParseFrom(src, i + 1, TRUE, n + 1)

TemplateParse(src) ==
    IF ParseFrom(src, 1, FALSE, 0)
    THEN [tpl |-> [kind |-> "template", name |-> "nameTemplate", src |-> src],
          err |-> Nil]
    ELSE [tpl |-> Nil, err |-> Err("template: nameTemplate: parse error", Nil)]

\* ---------------------------------------------------------------- newManager

\* The image newManager falls back to ("ubuntu-20.04").
DefaultImage == <<"u", "b", "u", "n", "t", "u", "-", "2", "0", ".", "0", "4">>

\* m.nodeGroups[drainingNodePoolId] as newManager builds it.
DrainingGroup ==
    [ manager      |-> "m",
      instanceType |-> "cx11",
      region       |-> "fsn1",
      targetSize   |-> 0,
      maxSize      |-> 0,
      minSize      |-> 0,
      id           |-> drainingNodePoolId ]

\* The sshKeys field of the manager, from HCLOUD_SSH_KEY.
SSHKeysOf(value) == Split(value, ",")

\* A construction that registers a configured pool beside the draining group.
InitialNodeGroups_WithPool ==
    [id \in {drainingNodePoolId, "pool1"} |->
        IF id = drainingNodePoolId THEN DrainingGroup
        ELSE [DrainingGroup EXCEPT !.id = "pool1", !.maxSize = 1]]

\* The nodeGroups map of the manager newManager returns.
InitialNodeGroups == [id \in {drainingNodePoolId} |-> DrainingGroup]

\* A construction that leaves the emptiness of the payload to the decoder.
CloudInitMissing_Never(e) == FALSE

\* newManager: its test of HCLOUD_CLOUD_INIT.
CloudInitMissing(e) == e.HCLOUD_CLOUD_INIT = <<>>

\* newManager() under environment e: the pair (manager, error) it returns.
newManager(e) ==
    IF e.HCLOUD_TOKEN = <<>>
    THEN [m |-> Nil, err |-> Err("HCLOUD_TOKEN is not specified", Nil)]
    ELSE IF CloudInitMissing(e)
    THEN [m |-> Nil, err |-> Err("HCLOUD_CLOUD_INIT is not specified", Nil)]
    ELSE
    LET image == IF e.HCLOUD_IMAGE = <<>> THEN DefaultImage ELSE e.HCLOUD_IMAGE
        parsed == IF e.HCLOUD_NAME_TEMPLATE # <<>>
                  THEN TemplateParse(e.HCLOUD_NAME_TEMPLATE)
                  ELSE [tpl |-> Nil, err |-> Nil]
    IN
    IF parsed.err # Nil
    THEN [m |-> Nil, err |-> Err("failed to parse name template", parsed.err)]
    ELSE
    LET sshKeys == SSHKeysOf(e.HCLOUD_SSH_KEY)
        cloudInit == DecodeString(e.HCLOUD_CLOUD_INIT)
    IN
    IF ~cloudInit.ok
    THEN [m |-> Nil, err |-> Err("failed to parse cloud init error", Nil)]
    ELSE [m |-> [ kind         |-> "manager",
                  client       |-> [token |-> e.HCLOUD_TOKEN],
                  nodeGroups   |-> InitialNodeGroups,
                  cloudInit    |-> cloudInit.bytes,
                  nameTemplate |-> parsed.tpl,
                  image        |-> image,
                  sshKeys      |-> sshKeys ],
          err |-> Nil]

\* ---------------------------------------------------------------- inputs

\* Values of HCLOUD_TOKEN: unset, "t1".
Tokens == { <<>>, <<"t", "1">> }

\* Values of HCLOUD_CLOUD_INIT: unset, "aGVsbG8=" ("hello"), the same without
\* its padding, one with a character outside the alphabet, one with data
\* after the padding.
CloudInits ==
    { <<>>,
      <<"a", "G", "V", "s", "b", "G", "8", "=">>,
      <<"a", "G", "V", "s", "b", "G", "8">>,
      <<"a", "G", "!", "s">>,
      <<"a", "G", "=", "=", "a", "G", "V", "s">> }

\* Values of HCLOUD_IMAGE: unset, "d".
Images == { <<>>, <<"d">> }

\* Values of HCLOUD_NAME_TEMPLATE, as tokens: unset,
\* "{{toUpper .GroupId}}-{{.Seq}}", a call of the function "title" that the
\* map leaves out, an action that is never closed.
NameTemplates ==
    { <<>>,
      <<"{{", "toUpper", ".GroupId", "}}", "-", "{{", ".Seq", "}}">>,
      <<"{{", "title", ".GroupId", "}}">>,
      <<"{{", "toUpper", ".GroupId">> }

\* Values of HCLOUD_SSH_KEY: unset, "a", "a,bc".
SSHKeyValues == { <<>>, <<"a">>, <<"a", ",", "b", "c">> }

Environments ==
    [ HCLOUD_TOKEN         : Tokens,
      HCLOUD_CLOUD_INIT    : CloudInits,
      HCLOUD_IMAGE         : Images,
      HCLOUD_NAME_TEMPLATE : NameTemplates,
      HCLOUD_SSH_KEY       : SSHKeyValues ]

\* The servers of the hcloud project as the model starts.
S1 == [kind |-> "server", id |-> <<"1">>, name |-> <<"n">>, group |-> "pool1"]

RemoteServers == { S1 }

\* The node groups callers list servers of.
GroupIds == { drainingNodePoolId, "pool1" }

Node(name, providerID) ==
    [kind |-> "node", Name |-> name, Spec |-> [ProviderID |-> providerID]]

\* The *apiv1.Node arguments: a node known by name only; one with the
\* provider id of S1; one named like S1 whose provider id names no server;
\* a provider id without the scheme; a provider id that is the scheme alone.
Nodes ==
    { Node(<<"n">>, <<>>),
      Node(<<"n">>, providerIDPrefix \o <<"1">>),
      Node(<<"n">>, providerIDPrefix \o <<"9">>),
      Node(<<"x">>, <<"1">>),
      Node(<<"n">>, providerIDPrefix) }

\* ---------------------------------------------------------------- hcloud client

TransportError == Err("hcloud: request failed", Nil)

\* m.client.Server.Get(ctx, idOrName): the server with that id or name, nil
\* without an error when there is none, or an error when the request fails.
ServerGet(servers, idOrName) ==
    LET found == { s \in servers : s.id = idOrName \/ s.name = idOrName } IN
    { [val |-> Nil, err |-> TransportError],
      [val |-> IF found = {} THEN Nil ELSE CHOOSE s \in found : TRUE,
       err |-> Nil] }

\* m.client.Server.AllWithOpts(ctx, opts): the servers carrying the label of
\* the selector, or an error when the request fails.
ServerAllWithOpts(servers, opts) ==
    { [val |-> [kind |-> "servers", list |-> {}], err |-> TransportError],
      [val |-> [kind |-> "servers",
                list |-> { s \in servers :
                             opts.LabelSelector = <<nodeGroupLabel, "=", s.group>> }],
       err |-> Nil] }

\* m.client.Server.Delete(ctx, server): the error it returns and the servers
\* left; deleting a server that is gone is an error of the API.
ServerDelete(servers, server) ==
    { [err |-> TransportError, servers |-> servers] } \union
    ( IF server \in servers
      THEN { [err |-> Nil, servers |-> servers \ {server}] }
      ELSE { [err |-> Err("hcloud: server not found", Nil), servers |-> servers] } )

\* ---------------------------------------------------------------- manager

\* A resolution that prefers the name of the node.
NodeIdOrName_PreferName(node) ==
    IF node.Name # <<>>
    THEN node.Name
    ELSE TrimPrefix(node.Spec.ProviderID, providerIDPrefix)

\* serverForNode: the identifier handed to Server.Get.
NodeIdOrName(node) ==
    IF node.Spec.ProviderID # <<>>
    THEN TrimPrefix(node.Spec.ProviderID, providerIDPrefix)
    ELSE node.Name

\* A serverForNode that makes an error of a server that is not there.
serverForNodeResult_NotFoundIsError(node, reply) ==
    IF reply.err # Nil
    THEN [val |-> Nil,
          err |-> Err(<<"failed to get servers for node", node.Name>>, reply.err)]
    ELSE IF reply.val = Nil
    THEN [val |-> Nil, err |-> Err(<<"server not found for node", node.Name>>, Nil)]
    ELSE [val |-> reply.val, err |-> Nil]

\* serverForNode: what it returns for the reply (server, err) of Server.Get.
serverForNodeResult(node, reply) ==
    IF reply.err # Nil
    THEN [val |-> Nil,
          err |-> Err(<<"failed to get servers for node", node.Name>>, reply.err)]
    ELSE [val |-> reply.val, err |-> Nil]

\* An allServers that logs a failed listing and returns no servers.
allServersResult_Swallow(reply) ==
    IF reply.err # Nil
    THEN [val |-> [kind |-> "servers", list |-> {}], err |-> Nil]
    ELSE [val |-> reply.val, err |-> Nil]

\* allServers: what it returns for the reply of Server.AllWithOpts.
allServersResult(reply) ==
    IF reply.err # Nil
    THEN [val |-> Nil, err |-> Err("failed to get servers for hcloud", reply.err)]
    ELSE [val |-> reply.val, err |-> Nil]

\* allServers: the request options it builds for a node group.
ListOpts(nodeGroup) ==
    [PerPage |-> 50, LabelSelector |-> <<nodeGroupLabel, "=", nodeGroup>>]

\* A deleteByNode without its test for a nil server.
deleteByNodeAfterGet_NoNilCheck(node, r) ==
    IF r.err # Nil
    THEN [next |-> "ret", server |-> Nil,
          ret |-> [val |-> Nil,
                   err |-> Err(<<"failed to delete node", node.Name, "error">>, r.err)]]
    ELSE [next |-> "delete", server |-> r.val, ret |-> Nil]

\* deleteByNode: what it does with the result r of serverForNode: return an
\* error, or go on to deleteServer with the server found.
deleteByNodeAfterGet(node, r) ==
    IF r.err # Nil
    THEN [next |-> "ret", server |-> Nil,
          ret |-> [val |-> Nil,
                   err |-> Err(<<"failed to delete node", node.Name, "error">>, r.err)]]
    ELSE IF r.val = Nil
    THEN [next |-> "ret", server |-> Nil,
          ret |-> [val |-> Nil,
                   err |-> Err(<<"failed to delete node", node.Name, "server not found">>, Nil)]]
    ELSE [next |-> "delete", server |-> r.val, ret |-> Nil]

\* A step of two.
Incremented_ByTwo(loaded) == loaded + 2

\* addNodeToDrainingPool: the value it stores into targetSize, from the one
\* it loaded.
Incremented(loaded) == loaded + 1

\* deleteServer: what it returns for the error of Server.Delete.
deleteServerResult(err) == [val |-> Nil, err |-> err]

\* addNodeToDrainingPool: what it returns, the pointer held by the map.
addNodeToDrainingPoolResult ==
    [val |-> [kind |-> "nodeGroup", id |-> drainingNodePoolId], err |-> Nil]

\* Refresh: what it returns.
RefreshResult == [val |-> Nil, err |-> Nil]

\* ---------------------------------------------------------------- goroutines

\* A goroutine outside the manager.
Idle ==
    [ op |-> "none", pc |-> "idle", node |-> Nil, rd |-> 0,
      calls |-> <<>>, ret |-> Nil ]

\* A request to the hcloud API, and its reply once it has one.
Request(call, arg) == [call |-> call, arg |-> arg, done |-> FALSE, reply |-> Nil]

Replied(calls, reply) ==
    [calls EXCEPT ![Len(calls)] = [@ EXCEPT !.done = TRUE, !.reply = reply]]

InFlight(t) == g[t].calls[Len(g[t].calls)]

Init ==
    /\ env \in Environments
    /\ phase = "start"
    /\ mgr = Nil
    /\ newErr = Nil
    /\ remote = RemoteServers
    /\ g = [t \in Goroutines |-> Idle]
    /\ added = 0

\* The process builds its manager from the environment.
NewManager ==
    /\ phase = "start"
    /\ LET r == newManager(env) IN
       /\ mgr' = r.m
       /\ newErr' = r.err
       /\ phase' = IF r.err = Nil THEN "up" ELSE "failed"
    /\ UNCHANGED <<env, remote, g, added>>

CanCall(t) == phase = "up" /\ g[t].pc = "idle"

\* func (m *hetznerManager) Refresh() error
Refresh(t) ==
    /\ CanCall(t)
    /\ g' = [g EXCEPT ![t] = [Idle EXCEPT !.op = "Refresh", !.pc = "ret",
                                          !.ret = RefreshResult]]
    /\ UNCHANGED <<env, phase, mgr, newErr, remote, added>>

\* allServers up to its request to the API.
AllServersCall(t, nodeGroup) ==
    /\ CanCall(t)
    /\ g' = [g EXCEPT ![t] =
               [Idle EXCEPT !.op = "allServers", !.pc = "list",
                            !.calls = <<Request("Server.AllWithOpts",
                                                ListOpts(nodeGroup))>>]]
    /\ UNCHANGED <<env, phase, mgr, newErr, remote, added>>

\* allServers from the reply on.
AllServersReply(t) ==
    /\ g[t].pc = "list"
    /\ \E reply \in ServerAllWithOpts(remote, InFlight(t).arg) :
         g' = [g EXCEPT ![t].pc = "ret",
                        ![t].calls = Replied(@, reply),
                        ![t].ret = allServersResult(reply)]
    /\ UNCHANGED <<env, phase, mgr, newErr, remote, added>>

\* serverForNode up to its request to the API.
ServerForNodeCall(t, node) ==
    /\ CanCall(t)
    /\ g' = [g EXCEPT ![t] =
               [Idle EXCEPT !.op = "serverForNode", !.pc = "get", !.node = node,
                            !.calls = <<Request("Server.Get",
                                                [id |-> NodeIdOrName(node)])>>]]
    /\ UNCHANGED <<env, phase, mgr, newErr, remote, added>>

\* serverForNode from the reply on.
ServerForNodeReply(t) ==
    /\ g[t].op = "serverForNode"
    /\ g[t].pc = "get"
    /\ \E reply \in ServerGet(remote, InFlight(t).arg.id) :
         g' = [g EXCEPT ![t].pc = "ret",
                        ![t].calls = Replied(@, reply),
                        ![t].ret = serverForNodeResult(g[t].node, reply)]
    /\ UNCHANGED <<env, phase, mgr, newErr, remote, added>>

\* deleteByNode up to the request serverForNode makes.
DeleteByNodeCall(t, node) ==
    /\ CanCall(t)
    /\ g' = [g EXCEPT ![t] =
               [Idle EXCEPT !.op = "deleteByNode", !.pc = "get", !.node = node,
                            !.calls = <<Request("Server.Get",
                                                [id |-> NodeIdOrName(node)])>>]]
    /\ UNCHANGED <<env, phase, mgr, newErr, remote, added>>

\* deleteByNode from the reply to serverForNode up to its return or to the
\* request deleteServer makes.
DeleteByNodeGetReply(t) ==
    /\ g[t].op = "deleteByNode"
    /\ g[t].pc = "get"
    /\ \E reply \in ServerGet(remote, InFlight(t).arg.id) :
         LET d == deleteByNodeAfterGet(g[t].node,
                                       serverForNodeResult(g[t].node, reply))
             calls == Replied(g[t].calls, reply)
         IN  g' = [g EXCEPT ![t].pc = d.next,
                            ![t].calls =
                                IF d.next = "delete"
                                THEN Append(calls, Request("Server.Delete", d.server))
                                ELSE calls,
                            ![t].ret = d.ret]
    /\ UNCHANGED <<env, phase, mgr, newErr, remote, added>>

\* deleteServer, called with a server, up to its request to the API.
DeleteServerCall(t, server) ==
    /\ CanCall(t)
    /\ g' = [g EXCEPT ![t] =
               [Idle EXCEPT !.op = "deleteServer", !.pc = "delete",
                            !.calls = <<Request("Server.Delete", server)>>]]
    /\ UNCHANGED <<env, phase, mgr, newErr, remote, added>>

\* deleteServer from the reply on, in deleteByNode or called by itself.
DeleteServerReply(t) ==
    /\ g[t].pc = "delete"
    /\ \E reply \in ServerDelete(remote, InFlight(t).arg) :
         /\ remote' = reply.servers
         /\ g' = [g EXCEPT ![t].pc = "ret",
                           ![t].calls = Replied(@, [val |-> Nil, err |-> reply.err]),
                           ![t].ret = deleteServerResult(reply.err)]
    /\ UNCHANGED <<env, phase, mgr, newErr, added>>

\* addNodeToDrainingPool: the load of targetSize that += 1 starts with.
AddNodeToDrainingPoolLoad(t, node) ==
    /\ CanCall(t)
    /\ added < MaxDrain
    /\ added' = added + 1
    /\ g' = [g EXCEPT ![t] =
               [Idle EXCEPT !.op = "addNodeToDrainingPool", !.pc = "store",
                            !.rd = mgr.nodeGroups[drainingNodePoolId].targetSize]]
    /\ UNCHANGED <<env, phase, mgr, newErr, remote>>

\* addNodeToDrainingPool: the store that ends += 1, and the return.
AddNodeToDrainingPoolStore(t) ==
    /\ g[t].pc = "store"
    /\ mgr' = [mgr EXCEPT !.nodeGroups[drainingNodePoolId].targetSize =
                              Incremented(g[t].rd)]
    /\ g' = [g EXCEPT ![t].pc = "ret", ![t].ret = addNodeToDrainingPoolResult]
    /\ UNCHANGED <<env, phase, newErr, remote, added>>

\* The caller takes the result; the goroutine is free for another call.
Return(t) ==
    /\ g[t].pc = "ret"
    /\ g' = [g EXCEPT ![t] = Idle]
    /\ UNCHANGED <<env, phase, mgr, newErr, remote, added>>

Next ==
    \/ NewManager
    \/ \E t \in Goroutines : Refresh(t)
    \/ \E t \in Goroutines, nodeGroup \in GroupIds : AllServersCall(t, nodeGroup)
    \/ \E t \in Goroutines : AllServersReply(t)
    \/ \E t \in Goroutines, node \in Nodes : ServerForNodeCall(t, node)
    \/ \E t \in Goroutines : ServerForNodeReply(t)
    \/ \E t \in Goroutines, node \in Nodes : DeleteByNodeCall(t, node)
    \/ \E t \in Goroutines : DeleteByNodeGetReply(t)
    \/ \E t \in Goroutines, server \in RemoteServers : DeleteServerCall(t, server)
    \/ \E t \in Goroutines : DeleteServerReply(t)
    \/ \E t \in Goroutines, node \in Nodes : AddNodeToDrainingPoolLoad(t, node)
    \/ \E t \in Goroutines : AddNodeToDrainingPoolStore(t)
    \/ \E t \in Goroutines : Return(t)

Spec == Init /\ [][Next]_vars

\* ---------------------------------------------------------------- properties

TargetSize == mgr.nodeGroups[drainingNodePoolId].targetSize

Returned(t, op) == g[t].op = op /\ g[t].pc = "ret"

\* The reply of Server.Get when no server has the identifier.
NotFound == [val |-> Nil, err |-> Nil]

\* C1: once every addNodeToDrainingPool that was started has completed, N of
\* them in all, sequential or concurrent, targetSize is N above its initial 0.
C1_NoLostIncrement ==
    (phase = "up" /\ \A t \in Goroutines : g[t].pc # "store")
        => TargetSize = added

Deletes(t) == { i \in 1..Len(g[t].calls) : g[t].calls[i].call = "Server.Delete" }

\* C3: an invocation of deleteByNode issues Server.Delete at most once, only
\* after its Server.Get has returned a server, and for that server; when the
\* Server.Get failed or found no server it returns an error having issued no
\* Server.Delete.
C3_DeleteOnlyAfterGet ==
    \A t \in Goroutines :
        g[t].op = "deleteByNode" =>
            LET get == g[t].calls[1] IN
            /\ get.call = "Server.Get"
            /\ Cardinality(Deletes(t)) <= 1
            /\ \A i \in Deletes(t) :
                 /\ i = 2
                 /\ get.done
                 /\ get.reply.err = Nil
                 /\ get.reply.val # Nil
                 /\ g[t].calls[i].arg = get.reply.val
            /\ (get.done /\ (get.reply.err # Nil \/ get.reply.val = Nil))
                 => /\ Deletes(t) = {}
                    /\ g[t].pc = "ret"
                    /\ g[t].ret.err # Nil

C3_Witness ==
    /\ \E t \in Goroutines :
         /\ Returned(t, "deleteByNode")
         /\ Deletes(t) = {2}
         /\ g[t].calls[2].done
    /\ \E t \in Goroutines :
         /\ Returned(t, "deleteByNode")
         /\ g[t].calls[1].reply = NotFound
         /\ Deletes(t) = {}

FailingEnvironment(e) ==
    \/ e.HCLOUD_TOKEN = <<>>
    \/ e.HCLOUD_CLOUD_INIT = <<>>
    \/ ~DecodeString(e.HCLOUD_CLOUD_INIT).ok
    \/ e.HCLOUD_NAME_TEMPLATE # <<>> /\ ~ParseFrom(e.HCLOUD_NAME_TEMPLATE, 1, FALSE, 0)

\* C5: newManager returns an error and no manager when the token is empty,
\* the cloud-init payload is empty or not base64, or a non-empty name template
\* does not compile; otherwise it returns a manager and no error.
C5_ConstructionFailsExactlyWhen ==
    phase # "start" =>
        IF FailingEnvironment(env)
        THEN phase = "failed" /\ mgr = Nil /\ newErr # Nil
        ELSE phase = "up" /\ mgr # Nil /\ newErr = Nil

C5_Witness ==
    /\ phase = "failed"
    /\ env.HCLOUD_TOKEN # <<>>
    /\ env.HCLOUD_CLOUD_INIT = <<"a", "G", "V", "s", "b", "G", "8">>
    /\ env.HCLOUD_NAME_TEMPLATE # <<>>
    /\ ParseFrom(env.HCLOUD_NAME_TEMPLATE, 1, FALSE, 0)
    /\ mgr = Nil

\* C6: when a request of allServers, serverForNode, deleteByNode or
\* deleteServer to the API fails, the operation returns an error.
C6_FailuresAreReturned ==
    \A t \in Goroutines :
        ( /\ g[t].pc = "ret"
          /\ \E i \in 1..Len(g[t].calls) :
               g[t].calls[i].done /\ g[t].calls[i].reply.err # Nil )
            => g[t].ret.err # Nil

C6_Witness ==
    /\ \E t \in Goroutines :
         /\ Returned(t, "deleteByNode")
         /\ Len(g[t].calls) = 2
         /\ g[t].calls[2].reply.err # Nil
    /\ \E t \in Goroutines :
         /\ Returned(t, "allServers")
         /\ g[t].calls[1].reply.err # Nil

\* C7: the identifier serverForNode hands to Server.Get is the provider id
\* without the scheme when the node has a provider id, whatever its name, and
\* the name of the node when it has none.
C7_IdentifierPrecedence ==
    \A t \in Goroutines :
        g[t].op \in {"serverForNode", "deleteByNode"} =>
            LET pid == g[t].node.Spec.ProviderID
                n   == Len(providerIDPrefix)
                id  == g[t].calls[1].arg.id
            IN
            /\ g[t].calls[1].call = "Server.Get"
            /\ pid = <<>> => id = g[t].node.Name
            /\ (pid # <<>> /\ Len(pid) >= n /\ SubSeq(pid, 1, n) = providerIDPrefix)
                 => id = SubSeq(pid, n + 1, Len(pid))
            /\ (pid # <<>> /\ ~(Len(pid) >= n /\ SubSeq(pid, 1, n) = providerIDPrefix))
                 => id = pid

C7_Witness ==
    \E t \in Goroutines :
        /\ g[t].op = "serverForNode"
        /\ g[t].node.Name = <<"n">>
        /\ g[t].node.Spec.ProviderID = providerIDPrefix \o <<"9">>
        /\ g[t].calls[1].arg.id = <<"9">>

\* C8: as long as no addNodeToDrainingPool has been started, and so right
\* after a successful newManager, nodeGroups holds one group, the draining
\* group under drainingNodePoolId, with targetSize, minSize and maxSize 0.
C8_OnlyDrainingGroupAtStart ==
    (phase = "up" /\ added = 0) =>
        /\ DOMAIN mgr.nodeGroups = {drainingNodePoolId}
        /\ mgr.nodeGroups[drainingNodePoolId].id = drainingNodePoolId
        /\ mgr.nodeGroups[drainingNodePoolId].targetSize = 0
        /\ mgr.nodeGroups[drainingNodePoolId].minSize = 0
        /\ mgr.nodeGroups[drainingNodePoolId].maxSize = 0

C8_Witness ==
    /\ phase = "up"
    /\ added = 0
    /\ \A t \in Goroutines : g[t] = Idle
    /\ env.HCLOUD_TOKEN = <<"t", "1">>
    /\ env.HCLOUD_NAME_TEMPLATE = <<>>
    /\ mgr.cloudInit = <<104, 101, 108, 108, 111>>

\* C9: with HCLOUD_SSH_KEY unset or empty the manager holds no SSH key; with
\* k identifiers separated by commas it holds those k, in order.
C9_SSHKeys ==
    phase = "up" =>
        /\ env.HCLOUD_SSH_KEY = <<>> => mgr.sshKeys = <<>>
        /\ env.HCLOUD_SSH_KEY = <<"a">> => mgr.sshKeys = << <<"a">> >>
        /\ env.HCLOUD_SSH_KEY = <<"a", ",", "b", "c">>
             => mgr.sshKeys = << <<"a">>, <<"b", "c">> >>

\* C10: after construction the draining group is in nodeGroups with minSize
\* and maxSize 0, its targetSize never decreases and changes only in
\* addNodeToDrainingPool, and Refresh changes nothing and returns no error.
C10_DrainingGroupMonotonic ==
    [][phase = "up" =>
         /\ drainingNodePoolId \in DOMAIN mgr'.nodeGroups
         /\ mgr'.nodeGroups[drainingNodePoolId].minSize = 0
         /\ mgr'.nodeGroups[drainingNodePoolId].maxSize = 0
         /\ TargetSize' >= TargetSize
         /\ TargetSize' # TargetSize
              => \E t \in Goroutines :
                   /\ g[t].op = "addNodeToDrainingPool"
                   /\ g[t].pc = "store"
                   /\ g'[t].pc = "ret"
         /\ \A t \in Goroutines :
              (g[t].pc = "idle" /\ g'[t].op = "Refresh")
                  => mgr' = mgr /\ g'[t].ret = [val |-> Nil, err |-> Nil]]_vars

====
